---- MODULE Spec2Model ----
(***************************************************************************)
(* A model of check_docstrings.py: the docstring fixer.                    *)
(*                                                                         *)
(* A source line is a record whose txt field is the line's text as a       *)
(* sequence of tokens (one " " token per space, Q for the triple quote);   *)
(* a text (a str value, a list element of the line buffer) is a sequence   *)
(* of lines, the "\n" between and after them left implicit.  The field k   *)
(* is the grammatical kind of the line as the parser sees it, hd the       *)
(* function header a def line carries, and n the number the line had in    *)
(* the file given on the command line (0 for a line the fixer made).       *)
(***************************************************************************)
EXTENDS Integers, Sequences, FiniteSets, TLC

\* Bounds of the explored inputs.
MaxItems == 2
MaxFiles == 2
MaxRuns == 2

\* The body indentation added to the function's column.
BodyIndent == 4

Q == "\"\"\""
SP == " "

Min(a, b) == IF a < b THEN a ELSE b
Max(a, b) == IF a > b THEN a ELSE b

\* "".join(ss), by halves.
RECURSIVE ConcatRange(_, _, _)
ConcatRange(ss, lo, hi) ==
    IF lo > hi THEN <<>>
    ELSE IF lo = hi THEN ss[lo]
    ELSE LET mid == (lo + hi) \div 2
         IN ConcatRange(ss, lo, mid) \o ConcatRange(ss, mid + 1, hi)

Concat(ss) == ConcatRange(ss, 1, Len(ss))

Spaces(w) == [j \in 1..w |-> SP]

\* ---------------------------------------------------------------- str methods

\* The number of leading spaces of a line's text.
LeadingSpaces(txt) ==
    CHOOSE m \in 0..Len(txt) :
        /\ \A j \in 1..m : txt[j] = SP
        /\ (m = Len(txt) \/ txt[m + 1] # SP)

TrailingSpaces(txt) ==
    CHOOSE m \in 0..Len(txt) :
        /\ \A j \in 1..m : txt[Len(txt) + 1 - j] = SP
        /\ (m = Len(txt) \/ txt[Len(txt) - m] # SP)

IsBlank(txt) == \A j \in 1..Len(txt) : txt[j] = SP

\* str.strip(): whitespace (spaces and line ends) removed at both ends.
Strip(s) ==
    LET keep == {j \in 1..Len(s) : ~IsBlank(s[j])} IN
    IF keep = {} THEN <<>>
    ELSE LET lo == CHOOSE j \in keep : \A m \in keep : j <= m
             hi == CHOOSE j \in keep : \A m \in keep : j >= m
             cut == [j \in 1..(hi - lo + 1) |-> s[lo + j - 1]]
             l1 == [cut EXCEPT ![1] =
                       SubSeq(cut[1], LeadingSpaces(cut[1]) + 1, Len(cut[1]))]
         IN [l1 EXCEPT ![Len(l1)] =
                SubSeq(l1[Len(l1)], 1, Len(l1[Len(l1)]) - TrailingSpaces(l1[Len(l1)]))]

\* The letters the function names of the inputs are written with.
UpperOf(c) ==
    CASE c = "f" -> "F" [] c = "g" -> "G" [] c = "h" -> "H"
      [] c = "e" -> "E" [] c = "t" -> "T" [] c = "x" -> "X"
      [] OTHER -> c

LowerOf(c) ==
    CASE c = "F" -> "f" [] c = "G" -> "g" [] c = "H" -> "h"
      [] c = "E" -> "e" [] c = "T" -> "t" [] c = "X" -> "x"
      [] OTHER -> c

\* str.replace('_', ' ')
ReplaceUnderscore(name) == [j \in 1..Len(name) |-> IF name[j] = "_" THEN SP ELSE name[j]]

\* str.capitalize()
Capitalize(name) ==
    [j \in 1..Len(name) |-> IF j = 1 THEN UpperOf(name[j]) ELSE LowerOf(name[j])]

\* str.startswith / str.endswith
StartsWith(name, p) == Len(name) >= Len(p) /\ SubSeq(name, 1, Len(p)) = p
EndsWith(name, p) ==
    Len(name) >= Len(p) /\ SubSeq(name, Len(name) - Len(p) + 1, Len(name)) = p

\* ---------------------------------------------------------------- synthesis

ArgsWord == <<"A", "r", "g", "s">>
ReturnsWord == <<"R", "e", "t", "u", "r", "n", "s">>
Dashes(w) == [j \in 1..w |-> "-"]

\* The annotation a function's returns node is rendered as.
ReturnsAnnotation(returns) ==
    IF returns.present
    THEN IF returns.id # "" THEN returns.id
         ELSE IF returns.attr # "" THEN returns.attr
         ELSE "None"
    ELSE "None"

\* generate_docstring: the text, as its lines.  existing_docstring is <<>> for
\* None and for the empty string, which `or` treats alike.
generate_docstring(func_node, existing_docstring) ==
    LET params == func_node.args
        returns_annotation == ReturnsAnnotation(func_node.returns)
        description ==
            IF existing_docstring # <<>> THEN existing_docstring
            ELSE << Capitalize(ReplaceUnderscore(func_node.name)) \o <<" function.">> >>
        args_section ==
            IF params # <<>>
            THEN << ArgsWord \o <<":">>, Dashes(Len(ArgsWord)) >>
                 \o [j \in 1..Len(params) |->
                        Spaces(4) \o <<params[j], " (TYPE): Description.">>]
            ELSE <<>>
    IN << <<Q>> >> \o description \o << <<>> >>
       \o args_section
       \o << <<>>, ReturnsWord \o <<":">>, Dashes(Len(ReturnsWord)),
             Spaces(4) \o <<returns_annotation, ": Description.">>,
             <<>>, <<Q>> >>

\* ---------------------------------------------------------------- ast.parse

NoHd == [name |-> <<>>, args |-> <<>>,
         returns |-> [present |-> FALSE, id |-> "", attr |-> ""]]

\* The position of the first triple quote in a line's text, 0 when it has none.
FirstQ(txt) ==
    IF \E j \in 1..Len(txt) : txt[j] = Q
    THEN CHOOSE j \in 1..Len(txt) : txt[j] = Q /\ \A m \in 1..(j - 1) : txt[m] # Q
    ELSE 0

\* ast.Expr whose value is an ast.Constant holding the str with the lines s.
StrStmt(s, first, last) ==
    [type |-> "Expr", value |-> [type |-> "Constant", isstr |-> TRUE, s |-> s],
     lineno |-> first, end_lineno |-> last]

\* ast.Expr whose value is an ast.Constant that holds no str (a number, None, ...).
LitStmt(first) ==
    [type |-> "Expr", value |-> [type |-> "Constant", isstr |-> FALSE, s |-> <<>>],
     lineno |-> first, end_lineno |-> first]

\* Any other statement (ast.Return, ast.Assign, ast.Pass, ...).
OtherStmt(first) ==
    [type |-> "Other", value |-> [type |-> "None", isstr |-> FALSE, s |-> <<>>],
     lineno |-> first, end_lineno |-> first]

\* ast.FunctionDef
FunctionDef(hd, first, col, body) ==
    [name |-> hd.name, args |-> hd.args, returns |-> hd.returns,
     lineno |-> first, col_offset |-> col, body |-> body,
     end_lineno |-> IF body = <<>> THEN first ELSE body[Len(body)].end_lineno]

ParseStart ==
    [ok |-> TRUE, funcs |-> <<>>, mode |-> "code", open |-> 0, bodyInd |-> 0,
     sStart |-> 0, sText |-> <<>>, sTo |-> 0]

ParseFail(st) == [st EXCEPT !.ok = FALSE]

\* Where a logical line indented by d belongs: in the body of the function left
\* open, at the top level (which closes that body), or nowhere (IndentationError).
Place(st, d) ==
    IF st.open # 0
    THEN IF st.funcs[st.open].body = <<>> /\ st.bodyInd = 0
         THEN IF d > st.funcs[st.open].col_offset THEN "body" ELSE "bad"
         ELSE IF d = st.bodyInd THEN "body"
         ELSE IF d = 0 THEN "top" ELSE "bad"
    ELSE IF d = 0 THEN "top" ELSE "bad"

\* A statement joins the body it was placed in; a top-level one closes the body.
AddStmt(st, to, stmt) ==
    IF to = 0 THEN [st EXCEPT !.open = 0, !.bodyInd = 0]
    ELSE [st EXCEPT !.funcs[to].body = Append(@, stmt),
                    !.funcs[to].end_lineno = stmt.end_lineno]

\* One physical line inside a triple-quoted string: it ends at the first quotes.
LexString(st, line, i) ==
    LET p == FirstQ(line.txt) IN
    IF p = 0 THEN [st EXCEPT !.sText = Append(@, line.txt)]
    ELSE IF ~IsBlank(SubSeq(line.txt, p + 1, Len(line.txt))) THEN ParseFail(st)
    ELSE AddStmt([st EXCEPT !.mode = "code", !.sText = <<>>, !.sStart = 0, !.sTo = 0],
                 st.sTo,
                 StrStmt(Append(st.sText, SubSeq(line.txt, 1, p - 1)), st.sStart, i))

\* One physical line between the two lines of a def header.
LexHeader(st, line) ==
    IF IsBlank(line.txt) THEN st
    ELSE IF line.k = "deftail" THEN [st EXCEPT !.mode = "code"]
    ELSE ParseFail(st)

\* One logical line of code.
LexCode(st, line, i) ==
    IF IsBlank(line.txt) THEN st
    ELSE
    LET d == LeadingSpaces(line.txt)
        place == Place(st, d)
        to == IF place = "body" THEN st.open ELSE 0
        in == IF place = "body" THEN [st EXCEPT !.bodyInd = d] ELSE st
    IN
    IF place = "bad" \/ line.k \in {"err", "deftail"} THEN ParseFail(st)
    ELSE IF line.k \in {"def", "defhead", "defbody"}
    THEN IF place = "body" THEN ParseFail(st)
         ELSE LET body == IF line.k = "defbody" THEN <<OtherStmt(i)>> ELSE <<>>
                  node == FunctionDef(line.hd, i, d, body)
              IN [st EXCEPT !.funcs = Append(@, node),
                            !.open = IF line.k = "defbody" THEN 0 ELSE Len(st.funcs) + 1,
                            !.bodyInd = 0,
                            !.mode = IF line.k = "defhead" THEN "header" ELSE "code"]
    ELSE IF line.k = "stmt" THEN AddStmt(in, to, OtherStmt(i))
    ELSE IF line.k = "lit" THEN AddStmt(in, to, LitStmt(i))
    ELSE \* a line of string text: it is code only when it opens with the quotes
         IF line.txt[d + 1] # Q THEN ParseFail(st)
         ELSE LET rest == SubSeq(line.txt, d + 2, Len(line.txt))
                  p == FirstQ(rest)
              IN IF p = 0
                 THEN [in EXCEPT !.mode = "string", !.sStart = i,
                                 !.sText = <<rest>>, !.sTo = to,
                                 !.open = to]
                 ELSE IF ~IsBlank(SubSeq(rest, p + 1, Len(rest))) THEN ParseFail(st)
                 ELSE AddStmt(in, to, StrStmt(<<SubSeq(rest, 1, p - 1)>>, i, i))

ParseLine(st, line, i) ==
    IF ~st.ok THEN st
    ELSE IF st.mode = "string" THEN LexString(st, line, i)
    ELSE IF st.mode = "header" THEN LexHeader(st, line)
    ELSE LexCode(st, line, i)

\* The lines lo..hi read in order from the state st, by halves.
RECURSIVE ParseRange(_, _, _, _)
ParseRange(lines, lo, hi, st) ==
    IF lo > hi \/ ~st.ok THEN st
    ELSE IF lo = hi THEN ParseLine(st, lines[lo], lo)
    ELSE LET mid == (lo + hi) \div 2
         IN ParseRange(lines, mid + 1, hi, ParseRange(lines, lo, mid, st))

\* ast.parse: ok is FALSE for a SyntaxError; funcs are the FunctionDef nodes in
\* the order ast.walk yields them.
Parse(lines) ==
    LET st == ParseRange(lines, 1, Len(lines), ParseStart)
        ok == /\ st.ok
              /\ st.mode = "code"
              /\ (st.open = 0 \/ st.funcs[st.open].body # <<>>)
    IN [ok |-> ok, funcs |-> IF ok THEN st.funcs ELSE <<>>]

\* ---------------------------------------------------------------- list methods

\* del l[start:end], the slice clipped to the list as Python clips it.
DelSlice(l, start, end) ==
    LET s == Min(start, Len(l))
        e == Max(Min(end, Len(l)), s)
    IN SubSeq(l, 1, s) \o SubSeq(l, e + 1, Len(l))

\* l.insert(pos, x): past the end it appends.
ListInsert(l, pos, x) ==
    LET p == Min(pos, Len(l))
    IN SubSeq(l, 1, p) \o <<x>> \o SubSeq(l, p + 1, Len(l))

Without(s, m) == SubSeq(s, 1, m - 1) \o SubSeq(s, m + 1, Len(s))

\* Tuple order of the (start, end) pairs.
RemovalLess(a, b) == a[1] < b[1] \/ (a[1] = b[1] /\ a[2] < b[2])

\* Tuple order of the (position, text) pairs.  Two insertions of one parseable
\* file never share a position (DistinctPositions), so the text never decides.
InsertionLess(a, b) == a[1] < b[1]

\* sorted(removals, reverse=True)
RECURSIVE SortedRemovals(_)
SortedRemovals(s) ==
    IF s = <<>> THEN <<>>
    ELSE LET m == CHOOSE j \in 1..Len(s) :
                      /\ \A l \in 1..Len(s) : ~RemovalLess(s[j], s[l])
                      /\ \A l \in 1..(j - 1) : RemovalLess(s[l], s[j])
         IN <<s[m]>> \o SortedRemovals(Without(s, m))

\* The insertions left in the order of the walk: the sort forgotten.
InsertionsAsPlanned(s) == s

\* sorted(insertions, reverse=True)
RECURSIVE SortedInsertions(_)
SortedInsertions(s) ==
    IF s = <<>> THEN <<>>
    ELSE LET m == CHOOSE j \in 1..Len(s) :
                      /\ \A l \in 1..Len(s) : ~InsertionLess(s[j], s[l])
                      /\ \A l \in 1..(j - 1) : InsertionLess(s[l], s[j])
         IN <<s[m]>> \o SortedInsertions(Without(s, m))

\* ---------------------------------------------------------------- the fixer

\* The condition of the `if` that selects the functions to fix.
Eligible(node) ==
    ~(\/ StartsWith(node.name, <<"_">>)
      \/ (StartsWith(node.name, <<"_", "_">>) /\ EndsWith(node.name, <<"_", "_">>)))

has_proper_docstring(node) ==
    /\ node.body # <<>>
    /\ node.body[1].type = "Expr"
    /\ node.body[1].value.type = "Constant"

\* The lines of a text as lines of a file.
TextLines(text) == [j \in 1..Len(text) |-> [k |-> "str", txt |-> text[j], hd |-> NoHd, n |-> 0]]

VARIABLES
    disk,            \* the content of each file: its lines
    files_to_check,  \* the paths given, as indices of disk
    i,               \* how many of them the loop of main has taken
    pc,              \* where the process is
    exc,             \* the exception that ended it
    source_code,     \* check_and_fix_docstrings: the lines read
    tree,            \* the FunctionDef nodes of the parse, in walk order
    updated_lines,   \* the line buffer: each element the lines of one str
    insertions,
    removals,
    k,               \* the next node of the walk
    rtodo,           \* what the removal loop has still to take
    itodo,           \* what the insertion loop has still to take
    log,             \* the edits applied to the buffer so far, in order
    run,             \* the number of the run of the program
    snap             \* the disk as the previous run left it

vars == <<disk, files_to_check, i, pc, exc, source_code, tree, updated_lines,
          insertions, removals, k, rtodo, itodo, log, run, snap>>

locals == <<source_code, tree, updated_lines, insertions, removals, k, rtodo, itodo, log>>

\* ---------------------------------------------------------------- the inputs

CodeLine(kind, ind, text, hd) == [k |-> kind, txt |-> Spaces(ind) \o text, hd |-> hd, n |-> 0]

NoReturns == [present |-> FALSE, id |-> "", attr |-> ""]
Hd(name, args, returns) == [name |-> name, args |-> args, returns |-> returns]

HdF == Hd(<<"f">>, <<>>, NoReturns)
HdGetX == Hd(<<"g", "e", "t", "_", "x">>, <<"a", "b">>, [present |-> TRUE, id |-> "int", attr |-> ""])
HdH == Hd(<<"h">>, <<"a", "b">>, [present |-> TRUE, id |-> "", attr |-> "X"])
HdPrivate == Hd(<<"_", "g">>, <<>>, NoReturns)
HdDunder == Hd(<<"_", "_", "h", "_", "_">>, <<>>, [present |-> TRUE, id |-> "", attr |-> ""])

DefLine(hd) == CodeLine("def", 0, <<"def", ":">>, hd)
StmtLine(text) == CodeLine("stmt", BodyIndent, <<text>>, NoHd)
DocLine(text) == CodeLine("str", BodyIndent, <<Q>> \o text \o <<Q>>, NoHd)
DocLines3(text) ==
    << CodeLine("str", BodyIndent, <<Q>>, NoHd),
       CodeLine("str", BodyIndent, text, NoHd),
       CodeLine("str", BodyIndent, <<Q>>, NoHd) >>

\* The top-level items the input files are made of.
ItemSet ==
    { \* def f(): / return 1
      << DefLine(HdF), StmtLine("return 1") >>,
      \* def get_x(a, b) -> int: / """old text""" / x = 1 / "stray" / return x
      << DefLine(HdGetX), DocLine(<<"old text">>), StmtLine("x = 1"),
         DocLine(<<"stray">>), StmtLine("return x") >>,
      \* def f(): / """ / old text / """ / return 1
      << DefLine(HdF) >> \o DocLines3(<<"old text">>) \o << StmtLine("return 1") >>,
      \* def f(): / """ old text """
      << DefLine(HdF), DocLine(<<SP, "old text", SP>>) >>,
      \* def h(a, / b) -> t.X: / return 1
      << CodeLine("defhead", 0, <<"def", ",">>, HdH),
         CodeLine("deftail", BodyIndent, <<")", ":">>, NoHd),
         StmtLine("return 1") >>,
      \* def f(): return 1
      << CodeLine("defbody", 0, <<"def", ":", SP, "return 1">>, HdF) >>,
      \* def f(): / 42 / return 1
      << DefLine(HdF), CodeLine("lit", BodyIndent, <<"42">>, NoHd), StmtLine("return 1") >>,
      \* def _g(): / return 1
      << DefLine(HdPrivate), StmtLine("return 1") >>,
      \* def __h__() -> T[int]: / """ / old text / """ / return 1
      << DefLine(HdDunder) >> \o DocLines3(<<"old text">>) \o << StmtLine("return 1") >>,
      \* def f(): / """  """ / return 1
      << DefLine(HdF), DocLine(<<SP, SP>>), StmtLine("return 1") >>,
      \* def get_x(a, b) -> int: / """old text / more""" / return 1
      << DefLine(HdGetX), CodeLine("str", BodyIndent, <<Q, "old text">>, NoHd),
         CodeLine("str", BodyIndent, <<"more", Q>>, NoHd), StmtLine("return 1") >>,
      \* x = 0
      << CodeLine("stmt", 0, <<"x = 0">>, NoHd) >>,
      \* a line that is no Python
      << CodeLine("err", 0, <<"def", "(">>, NoHd) >> }

Number(lines) == [j \in 1..Len(lines) |-> [lines[j] EXCEPT !.n = j]]

\* The ways to lay L items out over nf files, none of them empty.
Cuts(L, nf) ==
    { c \in [1..L -> 1..nf] :
        /\ c[1] = 1
        /\ c[L] = nf
        /\ \A j \in 1..(L - 1) : c[j + 1] \in {c[j], c[j] + 1} }

FileOf(its, cut, f) ==
    Number(Concat([j \in 1..Len(its) |-> IF cut[j] = f THEN its[j] ELSE <<>>]))

\* main, up to its loop: the paths given that end in ".py".
Init ==
    /\ \E L \in 1..MaxItems : \E its \in [1..L -> ItemSet] :
       \E nf \in 1..Min(MaxFiles, L) : \E cut \in Cuts(L, nf) :
          /\ disk = [f \in 1..nf |-> FileOf(its, cut, f)]
          /\ files_to_check = [f \in 1..nf |-> f]
    /\ i = 0
    /\ pc = "loop"
    /\ exc = "none"
    /\ source_code = <<>>
    /\ tree = <<>>
    /\ updated_lines = <<>>
    /\ insertions = <<>>
    /\ removals = <<>>
    /\ k = 0
    /\ rtodo = <<>>
    /\ itodo = <<>>
    /\ log = <<>>
    /\ run = 1
    /\ snap = disk

\* ---------------------------------------------------------------- the steps

\* for file in files_to_check; after the loop, the closing print.
MainLoop ==
    /\ pc = "loop"
    /\ IF i < Len(files_to_check)
       THEN i' = i + 1 /\ pc' = "open"
       ELSE i' = i /\ pc' = "done"
    /\ UNCHANGED <<disk, files_to_check, exc, locals, run, snap>>

\* with open(file_path, "r") as file: source_code = file.readlines()
ReadFile ==
    /\ pc = "open"
    /\ source_code' = disk[files_to_check[i]]
    /\ pc' = "parse"
    /\ UNCHANGED <<disk, files_to_check, i, exc, tree, updated_lines, insertions,
                   removals, k, rtodo, itodo, log, run, snap>>

\* tree = ast.parse(...); updated_lines = list(source_code); the two empty lists.
\* A SyntaxError is caught nowhere: it ends the process.
ParseFile ==
    /\ pc = "parse"
    /\ LET r == Parse(source_code) IN
       IF r.ok
       THEN /\ tree' = r.funcs
            /\ updated_lines' = [j \in 1..Len(source_code) |-> <<source_code[j]>>]
            /\ insertions' = <<>>
            /\ removals' = <<>>
            /\ k' = 1
            /\ rtodo' = <<>>
            /\ itodo' = <<>>
            /\ log' = <<>>
            /\ pc' = "walk"
            /\ exc' = exc
       ELSE /\ pc' = "crashed"
            /\ exc' = "SyntaxError"
            /\ UNCHANGED <<tree, updated_lines, insertions, removals, k, rtodo, itodo, log>>
    /\ UNCHANGED <<disk, files_to_check, i, source_code, run, snap>>

\* One turn of `for node in ast.walk(tree)`.
WalkNode ==
    /\ pc = "walk"
    /\ k <= Len(tree)
    /\ LET node == tree[k]
           first_body_item == node.body[1]
           has == has_proper_docstring(node)
       IN
       IF ~Eligible(node)
       THEN /\ k' = k + 1
            /\ UNCHANGED <<pc, exc, insertions, removals>>
       ELSE IF has /\ ~first_body_item.value.isstr
       THEN \* first_body_item.value.s.strip() on a value that is no str
            /\ pc' = "crashed"
            /\ exc' = "AttributeError"
            /\ UNCHANGED <<k, insertions, removals>>
       ELSE LET existing_docstring == IF has THEN Strip(first_body_item.value.s) ELSE <<>>
                start_line == first_body_item.lineno - 1
                end_line == first_body_item.end_lineno
                new_docstring == generate_docstring(node, existing_docstring)
                insert_position == IF has THEN first_body_item.lineno - 1 ELSE node.lineno
                indentation == Spaces(node.col_offset + BodyIndent)
                text == [new_docstring EXCEPT ![1] = indentation \o @]
            IN /\ removals' = IF has THEN Append(removals, <<start_line, end_line + 1>>)
                              ELSE removals
               /\ insertions' = Append(insertions, <<insert_position, TextLines(text)>>)
               /\ k' = k + 1
               /\ UNCHANGED <<pc, exc>>
    /\ UNCHANGED <<disk, files_to_check, i, source_code, tree, updated_lines,
                   rtodo, itodo, log, run, snap>>

\* The walk is over: sorted(removals, reverse=True) is taken for the first loop.
SortRemovals ==
    /\ pc = "walk"
    /\ k > Len(tree)
    /\ rtodo' = SortedRemovals(removals)
    /\ pc' = "removals"
    /\ UNCHANGED <<disk, files_to_check, i, exc, source_code, tree, updated_lines,
                   insertions, removals, k, itodo, log, run, snap>>

\* del updated_lines[start:end]
ApplyRemoval ==
    /\ pc = "removals"
    /\ rtodo # <<>>
    /\ updated_lines' = DelSlice(updated_lines, Head(rtodo)[1], Head(rtodo)[2])
    /\ log' = Append(log, [op |-> "del", at |-> Head(rtodo)[1]])
    /\ rtodo' = Tail(rtodo)
    /\ UNCHANGED <<disk, files_to_check, i, pc, exc, source_code, tree,
                   insertions, removals, k, itodo, run, snap>>

\* The removals are over: sorted(insertions, reverse=True) for the second loop.
SortInsertions ==
    /\ pc = "removals"
    /\ rtodo = <<>>
    /\ itodo' = SortedInsertions(insertions)
    /\ pc' = "insertions"
    /\ UNCHANGED <<disk, files_to_check, i, exc, source_code, tree, updated_lines,
                   insertions, removals, k, rtodo, log, run, snap>>

\* updated_lines.insert(pos, text)
ApplyInsertion ==
    /\ pc = "insertions"
    /\ itodo # <<>>
    /\ updated_lines' = ListInsert(updated_lines, Head(itodo)[1], Head(itodo)[2])
    /\ log' = Append(log, [op |-> "ins", at |-> Head(itodo)[1]])
    /\ itodo' = Tail(itodo)
    /\ UNCHANGED <<disk, files_to_check, i, pc, exc, source_code, tree,
                   insertions, removals, k, rtodo, run, snap>>

\* The write placed before the insertion loop instead of after it.
WriteFileBeforeInsertions ==
    /\ pc = "removals"
    /\ rtodo = <<>>
    /\ disk' = [disk EXCEPT ![files_to_check[i]] = Concat(updated_lines)]
    /\ pc' = "loop"
    /\ UNCHANGED <<files_to_check, i, exc, locals, run, snap>>

\* with open(file_path, "w") as file: file.writelines(updated_lines)
WriteFile ==
    /\ pc = "insertions"
    /\ itodo = <<>>
    /\ disk' = [disk EXCEPT ![files_to_check[i]] = Concat(updated_lines)]
    /\ pc' = "loop"
    /\ UNCHANGED <<files_to_check, i, exc, locals, run, snap>>

\* The program is started again on the same paths.
Rerun ==
    /\ pc = "done"
    /\ run < MaxRuns
    /\ run' = run + 1
    /\ snap' = disk
    /\ i' = 0
    /\ pc' = "loop"
    /\ UNCHANGED <<disk, files_to_check, exc, locals>>

Next ==
    \/ MainLoop
    \/ ReadFile
    \/ ParseFile
    \/ WalkNode
    \/ SortRemovals
    \/ ApplyRemoval
    \/ SortInsertions
    \/ ApplyInsertion
    \/ WriteFile
    \/ Rerun

Spec == Init /\ [][Next]_vars

\* ---------------------------------------------------------------- properties

\* The buffer is rewritten: both loops are over and the write is next.
Rewritten == pc = "insertions" /\ itodo = <<>>

\* The walk went through: every eligible node has its planned edits.
Planned == pc \in {"removals", "insertions"}

\* No two planned edits of a kind share their position.
DistinctPositions ==
    /\ \A a, b \in 1..Len(insertions) : a # b => insertions[a][1] # insertions[b][1]
    /\ \A a, b \in 1..Len(removals) : a # b => removals[a][1] # removals[b][1]

Nodes == 1..Len(tree)

\* The rewritten file, line by line.
Out == Concat(updated_lines)

\* The elements of the buffer that the fixer did not insert, line by line.
OutKept ==
    Concat([j \in 1..Len(updated_lines) |->
               IF \E a \in 1..Len(insertions) : insertions[a][2] = updated_lines[j]
               THEN <<>> ELSE updated_lines[j]])

\* The node's first statement is a string literal: its leading docstring.
HasDocstring(node) == has_proper_docstring(node) /\ node.body[1].value.isstr

\* The lines of the source that the leading docstrings of the fixed functions occupy.
DocstringLines ==
    {j \in 1..Len(source_code) :
        \E m \in Nodes : /\ Eligible(tree[m]) /\ HasDocstring(tree[m])
                         /\ tree[m].body[1].lineno <= j
                         /\ j <= tree[m].body[1].end_lineno}

\* The insertion planned for the eligible node m: the walk appends one per node.
InsertionOf(m) == insertions[Cardinality({j \in 1..m : Eligible(tree[j])})]

\* The last line of the node's header.
HeaderEnd(node) ==
    IF source_code[node.lineno].k = "defhead" THEN node.lineno + 1 ELSE node.lineno

\* C1: a second run of the fixer changes nothing: it plans no removal and no
\* insertion, and leaves every file as the first run wrote it.
C1_Idempotent ==
    run >= 2 =>
        /\ disk = snap
        /\ Planned => (removals = <<>> /\ insertions = <<>>)

\* C2: replacing leading docstrings removes their lines and no other: the lines
\* outside the old docstrings are all still there, unaltered and in order, and the
\* file grows by the lines of the new docstrings less the lines of the old ones.
C2_ReplaceConserves ==
    (Rewritten /\ \E m \in Nodes : Eligible(tree[m]) /\ HasDocstring(tree[m])) =>
        /\ OutKept = Concat([j \in 1..Len(source_code) |->
                               IF j \in DocstringLines THEN <<>> ELSE <<source_code[j]>>])
        /\ Len(Out) - Len(source_code) =
              Len(Concat([a \in 1..Len(insertions) |-> insertions[a][2]]))
              - Cardinality(DocstringLines)

\* C3: a function with a private or dunder name is never edited: nothing is
\* planned for it, and its lines, from the def line to the last line of its body,
\* stand together and unchanged in the rewritten file.
C3_ExcludedUntouched ==
    Rewritten =>
        \A m \in Nodes : ~Eligible(tree[m]) =>
            LET node == tree[m]
                span == SubSeq(source_code, node.lineno, node.end_lineno)
            IN /\ \A a \in 1..Len(removals) :
                      removals[a][1] # node.body[1].lineno - 1
               /\ \A a \in 1..Len(insertions) :
                      insertions[a][1] \notin {node.lineno, node.body[1].lineno - 1}
               /\ \E p \in 0..(Len(Out) - Len(span)) :
                      SubSeq(Out, p + 1, p + Len(span)) = span

\* C4: the edits do not invalidate each other: in the rewritten file every
\* synthesized docstring stands directly after the line that its recorded
\* position names in the original file.
C4_EditsIndependent ==
    Rewritten =>
        \A a \in 1..Len(insertions) :
            \E j \in 2..Len(updated_lines) :
                /\ updated_lines[j] = insertions[a][2]
                /\ updated_lines[j - 1] = <<source_code[insertions[a][1]]>>

\* C5: for an eligible function without a leading docstring the insertion is
\* planned at the first line of the body: after the whole header and before
\* every statement of the body.
C5_MissingPlacement ==
    Planned =>
        \A m \in Nodes :
            (Eligible(tree[m]) /\ ~has_proper_docstring(tree[m])) =>
                /\ HeaderEnd(tree[m]) <= InsertionOf(m)[1]
                /\ InsertionOf(m)[1] < tree[m].body[1].lineno

\* C6: every string literal statement of an eligible function that is not its
\* first statement gets a removal of its lines, and is gone from the rewritten file.
C6_MisplacedRemoved ==
    \A m \in Nodes : Eligible(tree[m]) =>
        \A j \in 2..Len(tree[m].body) :
            LET stmt == tree[m].body[j] IN
            (stmt.type = "Expr" /\ stmt.value.isstr) =>
                /\ Planned => \E a \in 1..Len(removals) :
                                  removals[a] = <<stmt.lineno - 1, stmt.end_lineno>>
                /\ Rewritten => \A p \in 1..Len(Out) : Out[p] # source_code[stmt.lineno]

\* C7: a first statement that is a literal but no string is no docstring: nothing
\* raises, no removal is planned for it, and the insertion is the one of a
\* function without a docstring.
C7_NonStringLiteral ==
    /\ exc # "AttributeError"
    /\ Planned =>
          \A m \in Nodes :
              (Eligible(tree[m]) /\ has_proper_docstring(tree[m]) /\ ~HasDocstring(tree[m])) =>
                  /\ InsertionOf(m)[1] = tree[m].lineno
                  /\ \A a \in 1..Len(removals) :
                         removals[a][1] # tree[m].body[1].lineno - 1

\* C8: a file that does not parse is skipped: when the run has ended on it, the
\* loop of main has still taken every later file.
C8_ParseFailureSkipsFile ==
    (pc = "crashed" /\ exc = "SyntaxError") => i = Len(files_to_check)

\* C9: the write is the last step: until the buffer is rewritten, and when the
\* processing fails, the file on disk is what was read; what is written is the
\* buffer of a file that parsed, with every planned edit applied.
C9_WriteLast ==
    /\ pc \in {"parse", "walk", "removals", "insertions", "crashed"} =>
          disk[files_to_check[i]] = source_code
    /\ (pc \in {"loop", "done"} /\ i > 0) =>
          /\ disk[files_to_check[i]] = Concat(updated_lines)
          /\ Parse(source_code).ok
          /\ rtodo = <<>>
          /\ itodo = <<>>
          /\ Len(log) = Len(removals) + Len(insertions)

\* A file fails while its edits are planned, one insertion already planned, and
\* is on disk as it was read.
C9_Witness ==
    /\ pc = "crashed"
    /\ exc = "AttributeError"
    /\ insertions # <<>>
    /\ disk[files_to_check[i]] = source_code

\* C10: no insertion is applied before every removal is; the removals are applied
\* by never increasing start, the insertions by never increasing position; and
\* each index was planned on the buffer as read, before its first change.
C10_ApplierOrder ==
    /\ \A a, b \in 1..Len(log) : (a < b /\ log[a].op = "ins") => log[b].op = "ins"
    /\ \A a \in 1..Len(log) :
          log[a].op = "ins" =>
              Cardinality({b \in 1..Len(log) : log[b].op = "del"}) = Len(removals)
    /\ \A a \in 1..(Len(log) - 1) :
          log[a].op = log[a + 1].op => log[a].at >= log[a + 1].at
    /\ \A a \in 1..Len(log) :
          IF log[a].op = "del"
          THEN \E r \in 1..Len(removals) : removals[r][1] = log[a].at
          ELSE \E r \in 1..Len(insertions) : insertions[r][1] = log[a].at
    /\ pc = "walk" =>
          /\ log = <<>>
          /\ updated_lines = [j \in 1..Len(source_code) |-> <<source_code[j]>>]

\* Two removals and two insertions have been applied to one buffer.
C10_Witness ==
    /\ Rewritten
    /\ Len(removals) >= 2
    /\ Len(insertions) >= 2
    /\ Len(log) = Len(removals) + Len(insertions)

====
